---- MODULE Spec2Model ----
(***************************************************************************)
(* A model of the blog's client-side logic:                                *)
(*   - useStudyList / StudyListPage  (the list pages /bs, /fs, ...)        *)
(*   - useStudyDetail / Card         (the detail pages and their links)    *)
(*   - DotFieldCanvas                (the WebGL background of the landing  *)
(*                                    page and its animation loop)         *)
(* Strings are sequences of one-character strings.  Real numbers are       *)
(* fixed-point integers (see Scale).                                       *)
(***************************************************************************)
EXTENDS Integers, Sequences, FiniteSets, TLC

\* ------------------------------------------------------------------ bounds
\* longest cards array drawn for a page
MaxCards == 2
\* how often the title parameter of one useStudyDetail instance changes
MaxTitleChanges == 1
\* how often the cards prop of one useStudyList instance changes
MaxCardsChanges == 1
\* largest page index CardPagination sets
MaxPage == 1
\* how far performance.now() advances, in ticks of a third of a second
MaxTime == 2
\* how many animation frames are requested
MaxFrames == 3
\* how many IntersectionObserver entries wait for delivery
MaxQueue == 2

\* ----------------------------------------------------------------- strings
\* /\s/ in a JavaScript regular expression: here the space and the tab
IsSpace(c) == c \in {" ", "\t"}

RECURSIVE Concat(_)
Concat(ss) == IF ss = <<>> THEN <<>> ELSE Head(ss) \o Concat(Tail(ss))

\* String.prototype.replace(/-/g, " "): every hyphen becomes a space
ReplaceFirstHyphenOnly(s) ==
    LET hy == {i \in 1..Len(s) : s[i] = "-"}
    IN  [i \in 1..Len(s) |->
            IF hy # {} /\ i = (CHOOSE m \in hy : \A k \in hy : m <= k)
            THEN " " ELSE s[i]]
ReplaceHyphens(s) == [i \in 1..Len(s) |-> IF s[i] = "-" THEN " " ELSE s[i]]

\* String.prototype.replace(/\s+/g, "-"): every maximal run of whitespace
\* becomes one hyphen
RECURSIVE ReplaceSpaceRuns(_)
ReplaceSpaceRuns(s) ==
    IF s = <<>> THEN <<>>
    ELSE IF IsSpace(Head(s))
         THEN IF Len(s) >= 2 /\ IsSpace(s[2])
              THEN ReplaceSpaceRuns(Tail(s))
              ELSE <<"-">> \o ReplaceSpaceRuns(Tail(s))
         ELSE <<Head(s)>> \o ReplaceSpaceRuns(Tail(s))

\* The percent-encoding the browser applies to a path segment of a link.
EncodeChar(c) ==
    CASE c = " "  -> <<"%", "2", "0">>
      [] c = "\t" -> <<"%", "0", "9">>
      [] c = "%"  -> <<"%", "2", "5">>
      [] OTHER    -> <<c>>
EncodeURI(s) == Concat([i \in 1..Len(s) |-> EncodeChar(s[i])])

\* decodeURIComponent: every %XY triplet becomes the character it encodes.
HexChar(h, l) ==
    CASE h = "2" /\ l = "0" -> " "
      [] h = "0" /\ l = "9" -> "\t"
      [] h = "2" /\ l = "5" -> "%"
      [] h = "2" /\ l = "D" -> "-"
      [] OTHER -> "?"
RECURSIVE WellFormedURI(_)
WellFormedURI(s) ==
    IF s = <<>> THEN TRUE
    ELSE IF Head(s) = "%"
         THEN /\ Len(s) >= 3
              /\ HexChar(s[2], s[3]) # "?"
              /\ WellFormedURI(SubSeq(s, 4, Len(s)))
         ELSE WellFormedURI(Tail(s))
RECURSIVE decodeURIComponent(_)
decodeURIComponent(s) ==
    IF s = <<>> THEN <<>>
    ELSE IF Head(s) = "%" /\ Len(s) >= 3
         THEN <<HexChar(s[2], s[3])>> \o decodeURIComponent(SubSeq(s, 4, Len(s)))
         ELSE <<Head(s)>> \o decodeURIComponent(Tail(s))

\* ------------------------------------------------------------ content data
\* The titles content records are drawn from: a plain word, a title with a
\* space, one with a hyphen, one with a run of whitespace, one with two gaps.
TitleList ==
    << <<"a", "b">>,
       <<"a", " ", "b">>,
       <<"a", "-", "b">>,
       <<"a", " ", "\t", "b">>,
       <<"a", " ", "b", " ", "c">> >>
MdName == << "/md/1.md", "/md/2.md", "/md/3.md", "/md/4.md", "/md/5.md" >>
\* mdFile is optional: undefined (or "") is falsy
NoFile == ""
CardPool ==
    {[title |-> TitleList[i], mdFile |-> IF m THEN MdName[i] ELSE NoFile] :
        i \in 1..Len(TitleList), m \in BOOLEAN}
CardLists == UNION {[1..n -> CardPool] : n \in 0..MaxCards}
\* The arrays a list page is given: the hook copies records without reading
\* them, so three distinct records tell every reordering, loss and repetition.
ListCardPool == {c \in CardPool : c.mdFile # NoFile /\ c.title \in {TitleList[1], TitleList[2], TitleList[3]}}
ListCardLists == UNION {[1..n -> ListCardPool] : n \in 0..MaxCards}
Titles == {TitleList[i] : i \in 1..Len(TitleList)}

\* Card: href={`/${sessionName}/${card.title?.replace(/\s+/g, '-')}`}
CardSlug(card) == ReplaceSpaceRuns(card.title)

\* The title parameters a detail page is rendered with: the path segment of
\* a link, percent-encoded by the browser.  Links are the cards' own slugs;
\* a title typed as it is written is a path segment too.
RawSegments == Titles \cup {ReplaceSpaceRuns(t) : t \in Titles}
TitleParams == {EncodeURI(r) : r \in RawSegments}

\* What the server sends for a markdown file, and for a file it does not have
ServerText(file) == "text of " \o file
ErrorBody == "<h1>404</h1>"

VARIABLES
    page,            \* which page component is mounted: "list", "detail", "home"
    cards,           \* the bundled JSON array the page imports
    \* ---- useStudyList
    listCards,       \* the cards prop of the current render
    filteredCards,   \* useState<CardProps[]>([])
    currentPage,     \* useState(0)
    listEffectDue,   \* the effect of the last render has not run yet
    cardsChanges,    \* how often the cards prop changed
    \* ---- useStudyDetail
    title,           \* the title prop of the current render
    markdown,        \* useState("")
    notFoundState,   \* useState(false)
    effectDue,       \* the effect of the last render has not run yet
    fetches,         \* every fetch issued, in order, with how far it got
    titleChanges,    \* how often the title prop changed
    \* ---- DotFieldCanvas: the browser around it
    webglEnv,        \* "ok", "noContext" (getContext gives null), "throws"
    window,          \* [innerWidth, innerHeight, dpr2, scrollY, scrollHeight]
    intersecting,    \* whether the root container intersects the viewport
    ioQueue,         \* IntersectionObserver entries queued, not yet delivered
    rafPending,      \* ids of the animation frame requests not yet run or cancelled
    rafSeq,          \* the last id requestAnimationFrame returned
    now,             \* performance.now(), in ticks
    \* ---- DotFieldCanvas: the component
    canvasPhase,     \* "init" (rendered, effect not run), "mounted", "unmounted"
    cleanupSet,      \* the effect returned its cleanup function
    rendererMade,    \* new THREE.WebGLRenderer(...) was called
    canvasAttached,  \* renderer.domElement is a child of the mount div
    disposed,        \* which of geometry, material, renderer were disposed
    listeners,       \* the window event listeners registered
    observing,       \* visibilityObserver observes the root container
    visibleRef,
    rafRef,          \* 0 is null
    clock,           \* THREE.Clock: [running, oldTime]
    mouseTargetRef,
    mouseNdcRef,
    scrollTargetRef,
    scrollRef,
    uniforms,        \* [u_time, u_mouse, u_scroll, u_resolution]
    rendererState,   \* [pixelRatio2, size]
    renders,         \* how often renderer.render ran
    \* ---- the sidebar (BlogAide or Aside2)
    sidebarKind,     \* which of the two components is rendered
    sidebarPhase,    \* "init" (rendered, effect not run), "mounted", "unmounted"
    hasLayoutWrap,   \* the aside has an ancestor with the class layout_wrap
    layoutOpen,      \* that ancestor carries the class open
    asideOpen,       \* the aside element carries the class open
    activeButtons,   \* indices of the menu buttons carrying the class active
    navTop,          \* the nav's style property --top (<<>>: not set)
    clickListeners,  \* indices of the menu buttons with a click handler
    toggles,         \* how often the toggle button was clicked
    clicked,         \* index of the menu button clicked last (-1: none yet)
    \* ---- CustomCursor
    cursorPhase,     \* "init" (rendered, effect not run), "mounted", "unmounted"
    bodyCursor,      \* document.body.style.cursor
    cursorStyle,     \* the cursor element's [left, top, transform]
    cursorListening, \* the window "mousemove" listener is registered
    mouse            \* where the pointer is: the last mousemove's clientX, clientY

listVars == <<listCards, filteredCards, currentPage, listEffectDue, cardsChanges>>
detailVars == <<title, markdown, notFoundState, effectDue, fetches, titleChanges>>
envVars == <<webglEnv, window, intersecting, ioQueue, rafPending, rafSeq, now>>
refVars == <<visibleRef, rafRef, clock, mouseTargetRef, mouseNdcRef, scrollTargetRef, scrollRef>>
gfxVars == <<rendererMade, canvasAttached, disposed, uniforms, rendererState, renders>>
canvasVars == <<envVars, refVars, gfxVars, canvasPhase, cleanupSet, listeners, observing>>
sidebarVars == <<sidebarKind, sidebarPhase, hasLayoutWrap, layoutOpen, asideOpen,
                 activeButtons, navTop, clickListeners, toggles, clicked>>
cursorVars == <<cursorPhase, bodyCursor, cursorStyle, cursorListening, mouse>>
widgetVars == <<sidebarVars, cursorVars>>

\* ----------------------------------------------------------- useStudyList
ListIdle ==
    /\ listCards = <<>>
    /\ filteredCards = <<>>
    /\ currentPage = 0
    /\ listEffectDue = FALSE
    /\ cardsChanges = 0

\* StudyListPage's first render: useState's initial values, effect scheduled
ListMounted ==
    /\ listCards = cards
    /\ filteredCards = <<>>
    /\ currentPage = 0
    /\ listEffectDue = TRUE
    /\ cardsChanges = 0

\* useEffect(() => { setFilteredCards(cards); }, [cards])
ListEffectDroppingFirst ==
    /\ page = "list"
    /\ listEffectDue
    /\ filteredCards' = IF listCards = <<>> THEN <<>> ELSE Tail(listCards)
    /\ listEffectDue' = FALSE
    /\ UNCHANGED <<cards, listCards, currentPage, cardsChanges>>
    /\ UNCHANGED <<page, widgetVars, detailVars, canvasVars>>
ListEffectSorting ==
    /\ page = "list"
    /\ listEffectDue
    /\ filteredCards' = listCards
    /\ listCards' = IF Len(listCards) >= 2
                    THEN <<listCards[2], listCards[1]>> \o SubSeq(listCards, 3, Len(listCards))
                    ELSE listCards
    /\ listEffectDue' = FALSE
    /\ UNCHANGED <<cards, currentPage, cardsChanges>>
    /\ UNCHANGED <<page, widgetVars, detailVars, canvasVars>>
ListEffect ==
    /\ page = "list"
    /\ listEffectDue
    /\ filteredCards' = listCards
    /\ listEffectDue' = FALSE
    /\ UNCHANGED <<cards, listCards, currentPage, cardsChanges>>
    /\ UNCHANGED <<page, widgetVars, detailVars, canvasVars>>

\* The parent renders StudyListPage with another cards array.
ChangeCardsProp(c) ==
    /\ page = "list"
    /\ ~listEffectDue
    /\ cardsChanges < MaxCardsChanges
    /\ c # listCards
    /\ listCards' = c
    /\ listEffectDue' = TRUE
    /\ cardsChanges' = cardsChanges + 1
    /\ UNCHANGED <<cards, filteredCards, currentPage>>
    /\ UNCHANGED <<page, widgetVars, detailVars, canvasVars>>

\* CardPagination calls setCurrentPage
SetCurrentPage(p) ==
    /\ page = "list"
    /\ p # currentPage
    /\ currentPage' = p
    /\ UNCHANGED <<cards, listCards, filteredCards, listEffectDue, cardsChanges>>
    /\ UNCHANGED <<page, widgetVars, detailVars, canvasVars>>


\* --------------------------------------------------------- useStudyDetail
DetailIdle ==
    /\ title = <<>>
    /\ markdown = ""
    /\ notFoundState = FALSE
    /\ effectDue = FALSE
    /\ fetches = <<>>
    /\ titleChanges = 0

\* The detail page's first render: useState's initial values, effect scheduled
DetailMounted ==
    /\ title \in {t \in TitleParams : WellFormedURI(t)}
    /\ markdown = ""
    /\ notFoundState = FALSE
    /\ effectDue = TRUE
    /\ fetches = <<>>
    /\ titleChanges = 0

\* const decodedTitle = decodeURIComponent(title).replace(/-/g, " ");
DecodedTitleOf(t) == ReplaceHyphens(decodeURIComponent(t))
decodedTitle == DecodedTitleOf(title)

\* Array.prototype.find, as the index of the element found (0: undefined)
RECURSIVE FindFrom(_, _, _)
FindFrom(cs, wanted, i) ==
    IF i > Len(cs) THEN 0
    ELSE IF cs[i].title = wanted THEN i
    ELSE FindFrom(cs, wanted, i + 1)
Find(cs, wanted) == FindFrom(cs, wanted, 1)

\* const currentCard = cards.find((item) => item.title === decodedTitle);
currentCard == Find(cards, decodedTitle)

\* if (notFoundState) return notFound();
DetailView == IF notFoundState THEN "notFound" ELSE "page"

\* The useEffect body, deps [currentCard, title]
DetailEffectFetchingAlways ==
    /\ page = "detail"
    /\ effectDue
    /\ effectDue' = FALSE
    /\ IF currentCard = 0
       THEN /\ notFoundState' = TRUE
            /\ UNCHANGED fetches
       ELSE /\ UNCHANGED notFoundState
            /\ fetches' = Append(fetches,
                    [file |-> cards[currentCard].mdFile, stage |-> "pending"])
    /\ UNCHANGED <<cards, title, markdown, titleChanges>>
    /\ UNCHANGED <<page, widgetVars, listVars, canvasVars>>
DetailEffect ==
    /\ page = "detail"
    /\ effectDue
    /\ effectDue' = FALSE
    /\ IF currentCard = 0
       THEN /\ notFoundState' = TRUE
            /\ UNCHANGED fetches
       ELSE /\ UNCHANGED notFoundState
            /\ IF cards[currentCard].mdFile # NoFile
               THEN fetches' = Append(fetches,
                        [file |-> cards[currentCard].mdFile, stage |-> "pending"])
               ELSE UNCHANGED fetches
    /\ UNCHANGED <<cards, title, markdown, titleChanges>>
    /\ UNCHANGED <<page, widgetVars, listVars, canvasVars>>

\* The route renders the page with another title parameter.
ChangeTitle(t) ==
    /\ page = "detail"
    /\ ~effectDue
    /\ titleChanges < MaxTitleChanges
    /\ t # title
    /\ title' = t
    /\ effectDue' = TRUE
    /\ titleChanges' = titleChanges + 1
    /\ UNCHANGED <<cards, markdown, notFoundState, fetches>>
    /\ UNCHANGED <<page, widgetVars, listVars, canvasVars>>

\* fetch(mdFile).then((response) => response.text()).then((text) => setMarkdown(text))
\* The server answers with the file: the chain ends in setMarkdown(text).
FetchResolveOk(i) ==
    /\ page = "detail"
    /\ i \in 1..Len(fetches)
    /\ fetches[i].stage = "pending"
    /\ markdown' = ServerText(fetches[i].file)
    /\ fetches' = [fetches EXCEPT ![i].stage = "done"]
    /\ UNCHANGED <<cards, title, notFoundState, effectDue, titleChanges>>
    /\ UNCHANGED <<page, widgetVars, listVars, canvasVars>>

\* The server answers with an error status: fetch resolves all the same, and
\* response.ok is not looked at, so the chain ends in setMarkdown(error body).
FetchResolveHttpError(i) ==
    /\ page = "detail"
    /\ i \in 1..Len(fetches)
    /\ fetches[i].stage = "pending"
    /\ markdown' = ErrorBody
    /\ fetches' = [fetches EXCEPT ![i].stage = "httpError"]
    /\ UNCHANGED <<cards, title, notFoundState, effectDue, titleChanges>>
    /\ UNCHANGED <<page, widgetVars, listVars, canvasVars>>

\* The request fails (network error, aborted body): the promise chain is
\* rejected and has no catch, so no callback of the hook runs.
FetchReject ==
    \E i \in 1..Len(fetches) :
        /\ page = "detail"
        /\ fetches[i].stage = "pending"
        /\ fetches' = [fetches EXCEPT ![i].stage = "rejected"]
        /\ UNCHANGED <<cards, title, markdown, notFoundState, effectDue, titleChanges>>
        /\ UNCHANGED <<page, widgetVars, listVars, canvasVars>>

\* ---------------------------------------------------------- DotFieldCanvas
\* Real numbers are fixed-point: Scale stands for 1.0.  One tick of the clock
\* is a third of a second, so that 0.001^dt is 10^(-ticks) exactly.
Scale == 2 * 10^MaxTime
Min(a, b) == IF a < b THEN a ELSE b
Max(a, b) == IF a > b THEN a ELSE b
Abs(a) == IF a < 0 THEN -a ELSE a
\* THREE.MathUtils.clamp
Clamp(v, lo, hi) == Max(lo, Min(hi, v))

\* function isWebGLAvailable(): false when WebGLRenderingContext or the
\* context is missing, and when creating it throws (the catch)
isWebGLAvailableCatchTrue == webglEnv \in {"ok", "throws"}
isWebGLAvailable == webglEnv = "ok"

\* Math.min(2, window.devicePixelRatio || 1), in halves
PixelRatio2NoCap(w) == IF w.dpr2 = 0 THEN 2 ELSE w.dpr2
PixelRatio2(w) == Min(4, IF w.dpr2 = 0 THEN 2 ELSE w.dpr2)

\* THREE.MathUtils.lerp(x, y, t) = (1 - t) * x + t * y with t = 1 - 0.001^dt
LerpFixedStep(x, y, dt) == IF dt = 0 THEN x ELSE (x + 9 * y) \div 10
LerpSwapped(x, y, dt) == (y + (10^dt - 1) * x) \div 10^dt
Lerp(x, y, dt) == (x + (10^dt - 1) * y) \div 10^dt
\* Vector2.lerp(v, alpha): this.x += (v.x - this.x) * alpha, for x and y
LerpVec(v, target, dt) ==
    << v[1] + ((target[1] - v[1]) * (10^dt - 1)) \div 10^dt,
       v[2] + ((target[2] - v[2]) * (10^dt - 1)) \div 10^dt >>

\* handlePointerMove: client coordinates to NDC, -1..1, y upwards
PointerNdc(cx, cy, w) ==
    << (cx * 2 * Scale) \div w.innerWidth - Scale,
       -((cy * 2 * Scale) \div w.innerHeight - Scale) >>

\* updateScrollTarget: clamp(scrollY / max(1, scrollHeight - innerHeight), 0, 1)
ScrollNormNoClamp(w) ==
    (w.scrollY * Scale) \div Max(1, w.scrollHeight - w.innerHeight)
ScrollNorm(w) ==
    Clamp((w.scrollY * Scale) \div Max(1, w.scrollHeight - w.innerHeight), 0, Scale)

\* THREE.Clock.getDelta: the first call starts the clock and returns 0
GetDelta == IF clock.running THEN now - clock.oldTime ELSE 0

NoUniforms == [u_time |-> 0, u_mouse |-> <<0, 0>>, u_scroll |-> 0, u_resolution |-> <<0, 0>>]
NoRenderer == [pixelRatio2 |-> 0, size |-> <<0, 0>>]

\* The component is rendered and its effect has not run: the useRef values.
CanvasRendered ==
    /\ canvasPhase = "init"
    /\ cleanupSet = FALSE
    /\ rendererMade = FALSE
    /\ canvasAttached = FALSE
    /\ disposed = {}
    /\ listeners = {}
    /\ observing = FALSE
    /\ visibleRef = TRUE
    /\ rafRef = 0
    /\ clock = [running |-> FALSE, oldTime |-> 0]
    /\ mouseTargetRef = <<0, 0>>
    /\ mouseNdcRef = <<0, 0>>
    /\ scrollTargetRef = 0
    /\ scrollRef = 0
    /\ uniforms = NoUniforms
    /\ rendererState = NoRenderer
    /\ renders = 0
    /\ ioQueue = <<>>
    /\ rafPending = {}
    /\ rafSeq = 0
    /\ now = 0

\* A page without the canvas
CanvasIdle ==
    /\ CanvasRendered
    /\ webglEnv = "ok"
    /\ window = [innerWidth |-> 2, innerHeight |-> 2, dpr2 |-> 2, scrollY |-> 0, scrollHeight |-> 2]
    /\ intersecting = TRUE

\* const animate = () => { ... }, called with the refs as they are at the call:
\* vis is visibleRef.current, raf and pend the frame state, uni the uniforms,
\* mt and st the targets.
Animate(vis, raf, pend, uni, mt, st) ==
    IF ~vis
    THEN /\ rafRef' = raf
         /\ rafPending' = pend
         /\ uniforms' = uni
         /\ UNCHANGED <<rafSeq, clock, mouseNdcRef, scrollRef, renders>>
    ELSE LET dt == GetDelta
             m  == LerpVec(mouseNdcRef, mt, dt)
             sc == Lerp(scrollRef, st, dt)
         IN  /\ rafSeq' = rafSeq + 1
             /\ rafRef' = rafSeq + 1
             /\ rafPending' = pend \cup {rafSeq + 1}
             /\ clock' = [running |-> TRUE, oldTime |-> now]
             /\ mouseNdcRef' = m
             /\ scrollRef' = sc
             /\ uniforms' = [uni EXCEPT !.u_time = @ + dt, !.u_mouse = m, !.u_scroll = sc]
             /\ renders' = renders + 1

\* useEffect(() => { ... }, []) of DotFieldCanvas
CanvasMount ==
    /\ page = "home"
    /\ canvasPhase = "init"
    /\ canvasPhase' = "mounted"
    /\ IF ~isWebGLAvailable
       THEN UNCHANGED <<cleanupSet, listeners, observing, refVars, gfxVars, ioQueue,
                        rafPending, rafSeq>>
       ELSE /\ rendererMade' = TRUE
            /\ rendererState' = [pixelRatio2 |-> PixelRatio2(window),
                                 size |-> <<window.innerWidth, window.innerHeight>>]
            /\ canvasAttached' = TRUE
            /\ listeners' = {"pointermove", "scroll", "resize"}
            /\ scrollTargetRef' = ScrollNorm(window)
            /\ observing' = TRUE
            /\ ioQueue' = <<intersecting>>
            /\ Animate(visibleRef, rafRef, rafPending,
                       [NoUniforms EXCEPT !.u_resolution =
                            << window.innerWidth * PixelRatio2(window),
                               window.innerHeight * PixelRatio2(window) >>],
                       mouseTargetRef, ScrollNorm(window))
            /\ cleanupSet' = TRUE
            /\ UNCHANGED <<visibleRef, mouseTargetRef, disposed>>
    /\ UNCHANGED <<webglEnv, window, intersecting, now>>
    /\ UNCHANGED <<page, widgetVars, cards, listVars, detailVars>>

\* The root container enters or leaves the viewport; the observer queues an
\* entry with the new state.
IntersectionChange ==
    /\ page = "home"
    /\ intersecting' = ~intersecting
    /\ IF observing
       THEN /\ Len(ioQueue) < MaxQueue
            /\ ioQueue' = Append(ioQueue, ~intersecting)
       ELSE UNCHANGED ioQueue
    /\ UNCHANGED <<webglEnv, window, rafPending, rafSeq, now>>
    /\ UNCHANGED <<refVars, gfxVars, canvasPhase, cleanupSet, listeners, observing>>
    /\ UNCHANGED <<page, widgetVars, cards, listVars, detailVars>>

\* The IntersectionObserver callback, given the queued entries
ObserverCallbackNoNullCheck ==
    LET isVisible == \E i \in 1..Len(ioQueue) : ioQueue[i]
    IN  /\ page = "home"
        /\ observing
        /\ ioQueue # <<>>
        /\ isVisible => rafSeq < MaxFrames
        /\ ioQueue' = <<>>
        /\ visibleRef' = isVisible
        /\ IF isVisible
           THEN Animate(TRUE, rafRef, rafPending, uniforms, mouseTargetRef, scrollTargetRef)
           ELSE /\ rafRef' = 0
                /\ rafPending' = rafPending \ {rafRef}
                /\ UNCHANGED <<rafSeq, clock, mouseNdcRef, scrollRef, uniforms, renders>>
        /\ UNCHANGED <<mouseTargetRef, scrollTargetRef>>
        /\ UNCHANGED <<rendererMade, canvasAttached, disposed, rendererState>>
        /\ UNCHANGED <<webglEnv, window, intersecting, now>>
        /\ UNCHANGED <<canvasPhase, cleanupSet, listeners, observing>>
        /\ UNCHANGED <<page, widgetVars, cards, listVars, detailVars>>
ObserverCallback ==
    LET isVisible == \E i \in 1..Len(ioQueue) : ioQueue[i]
    IN  /\ page = "home"
        /\ observing
        /\ ioQueue # <<>>
        /\ (isVisible /\ rafRef = 0) => rafSeq < MaxFrames
        /\ ioQueue' = <<>>
        /\ visibleRef' = isVisible
        /\ IF isVisible /\ rafRef = 0
           THEN Animate(TRUE, rafRef, rafPending, uniforms, mouseTargetRef, scrollTargetRef)
           ELSE IF ~isVisible /\ rafRef # 0
           THEN /\ rafRef' = 0
                /\ rafPending' = rafPending \ {rafRef}
                /\ UNCHANGED <<rafSeq, clock, mouseNdcRef, scrollRef, uniforms, renders>>
           ELSE UNCHANGED <<rafRef, rafPending, rafSeq, clock, mouseNdcRef, scrollRef,
                            uniforms, renders>>
        /\ UNCHANGED <<mouseTargetRef, scrollTargetRef>>
        /\ UNCHANGED <<rendererMade, canvasAttached, disposed, rendererState>>
        /\ UNCHANGED <<webglEnv, window, intersecting, now>>
        /\ UNCHANGED <<canvasPhase, cleanupSet, listeners, observing>>
        /\ UNCHANGED <<page, widgetVars, cards, listVars, detailVars>>

\* The browser runs a requested frame: the callback is animate.
FrameCallback(id) ==
    /\ page = "home"
    /\ id \in rafPending
    /\ visibleRef => rafSeq < MaxFrames
    /\ Animate(visibleRef, rafRef, rafPending \ {id}, uniforms, mouseTargetRef, scrollTargetRef)
    /\ UNCHANGED <<visibleRef, mouseTargetRef, scrollTargetRef>>
    /\ UNCHANGED <<rendererMade, canvasAttached, disposed, rendererState>>
    /\ UNCHANGED <<webglEnv, window, intersecting, ioQueue, now>>
    /\ UNCHANGED <<canvasPhase, cleanupSet, listeners, observing>>
    /\ UNCHANGED <<page, widgetVars, cards, listVars, detailVars>>

\* window "pointermove": handlePointerMove
PointerMoveWritingNdc(cx, cy) ==
    /\ page = "home"
    /\ "pointermove" \in listeners
    /\ mouseTargetRef' = PointerNdc(cx, cy, window)
    /\ mouseNdcRef' = PointerNdc(cx, cy, window)
    /\ UNCHANGED <<visibleRef, rafRef, clock, scrollTargetRef, scrollRef>>
    /\ UNCHANGED <<envVars, gfxVars, canvasPhase, cleanupSet, listeners, observing>>
    /\ UNCHANGED <<page, widgetVars, cards, listVars, detailVars>>
PointerMove(cx, cy) ==
    /\ page = "home"
    /\ "pointermove" \in listeners
    /\ mouseTargetRef' = PointerNdc(cx, cy, window)
    /\ UNCHANGED <<visibleRef, rafRef, clock, mouseNdcRef, scrollTargetRef, scrollRef>>
    /\ UNCHANGED <<envVars, gfxVars, canvasPhase, cleanupSet, listeners, observing>>
    /\ UNCHANGED <<page, widgetVars, cards, listVars, detailVars>>

\* The page is scrolled to y; window "scroll": updateScrollTarget
ScrollEvent(y) ==
    /\ page = "home"
    /\ y # window.scrollY
    /\ window' = [window EXCEPT !.scrollY = y]
    /\ IF "scroll" \in listeners
       THEN scrollTargetRef' = ScrollNorm(window')
       ELSE UNCHANGED scrollTargetRef
    /\ UNCHANGED <<visibleRef, rafRef, clock, mouseTargetRef, mouseNdcRef, scrollRef>>
    /\ UNCHANGED <<webglEnv, intersecting, ioQueue, rafPending, rafSeq, now>>
    /\ UNCHANGED <<gfxVars, canvasPhase, cleanupSet, listeners, observing>>
    /\ UNCHANGED <<page, widgetVars, cards, listVars, detailVars>>

\* The window gets another size or pixel ratio; window "resize": handleResize
ResizeEvent(w, h, d) ==
    /\ page = "home"
    /\ <<w, h, d>> # <<window.innerWidth, window.innerHeight, window.dpr2>>
    /\ window' = [window EXCEPT !.innerWidth = w, !.innerHeight = h, !.dpr2 = d]
    /\ IF "resize" \in listeners
       THEN /\ rendererState' = [pixelRatio2 |-> PixelRatio2(window'), size |-> <<w, h>>]
            /\ uniforms' = [uniforms EXCEPT !.u_resolution =
                                <<w * PixelRatio2(window'), h * PixelRatio2(window')>>]
       ELSE UNCHANGED <<rendererState, uniforms>>
    /\ UNCHANGED <<rendererMade, canvasAttached, disposed, renders>>
    /\ UNCHANGED <<webglEnv, intersecting, ioQueue, rafPending, rafSeq, now>>
    /\ UNCHANGED <<refVars, canvasPhase, cleanupSet, listeners, observing>>
    /\ UNCHANGED <<page, widgetVars, cards, listVars, detailVars>>

\* Time passes.
Tick ==
    /\ page = "home"
    /\ now < MaxTime
    /\ now' = now + 1
    /\ UNCHANGED <<webglEnv, window, intersecting, ioQueue, rafPending, rafSeq>>
    /\ UNCHANGED <<refVars, gfxVars, canvasPhase, cleanupSet, listeners, observing>>
    /\ UNCHANGED <<page, widgetVars, cards, listVars, detailVars>>

\* The component unmounts: React runs the cleanup the effect returned, if any.
CanvasUnmountKeepingFrame ==
    /\ page = "home"
    /\ canvasPhase = "mounted"
    /\ canvasPhase' = "unmounted"
    /\ IF cleanupSet
       THEN /\ observing' = FALSE
            /\ ioQueue' = <<>>
            /\ listeners' = {}
            /\ disposed' = {"geometry", "material", "renderer"}
            /\ canvasAttached' = FALSE
            /\ UNCHANGED <<rafRef, rafPending>>
       ELSE UNCHANGED <<observing, ioQueue, listeners, rafPending, rafRef, disposed,
                        canvasAttached>>
    /\ UNCHANGED <<visibleRef, clock, mouseTargetRef, mouseNdcRef, scrollTargetRef, scrollRef>>
    /\ UNCHANGED <<rendererMade, uniforms, rendererState, renders>>
    /\ UNCHANGED <<webglEnv, window, intersecting, rafSeq, now, cleanupSet>>
    /\ UNCHANGED <<page, widgetVars, cards, listVars, detailVars>>
CanvasUnmount ==
    /\ page = "home"
    /\ canvasPhase = "mounted"
    /\ canvasPhase' = "unmounted"
    /\ IF cleanupSet
       THEN /\ observing' = FALSE
            /\ ioQueue' = <<>>
            /\ listeners' = {}
            /\ rafPending' = rafPending \ {rafRef}
            /\ rafRef' = 0
            /\ disposed' = {"geometry", "material", "renderer"}
            /\ canvasAttached' = FALSE
       ELSE UNCHANGED <<observing, ioQueue, listeners, rafPending, rafRef, disposed,
                        canvasAttached>>
    /\ UNCHANGED <<visibleRef, clock, mouseTargetRef, mouseNdcRef, scrollTargetRef, scrollRef>>
    /\ UNCHANGED <<rendererMade, uniforms, rendererState, renders>>
    /\ UNCHANGED <<webglEnv, window, intersecting, rafSeq, now, cleanupSet>>
    /\ UNCHANGED <<page, widgetVars, cards, listVars, detailVars>>

\* ------------------------------------------------ the sidebar and the cursor
\* the menu has six buttons, 56px apart
NumButtons == 6
ItemHeight == 56
\* how often the toggle button is clicked
MaxToggles == 2
\* largest clientX and clientY of a mousemove
MaxCoord == 2

Buttons == 0..(NumButtons - 1)

\* the template literal `${n}px`
Px(n) == <<n, "px">>
\* `${index === 0 ? 0 : index * 56}px`
TopOf(index) == Px(IF index = 0 THEN 0 ELSE index * ItemHeight)

\* The sidebar is rendered and its effect has not run: the classes of the JSX.
SidebarRendered ==
    /\ sidebarPhase = "init"
    /\ layoutOpen = FALSE
    /\ asideOpen = FALSE
    /\ activeButtons = {}
    /\ navTop = <<>>
    /\ clickListeners = {}
    /\ toggles = 0
    /\ clicked = -1

\* The cursor element is rendered and its effect has not run.
CursorRendered ==
    /\ cursorPhase = "init"
    /\ bodyCursor = ""
    /\ cursorStyle = [left |-> <<>>, top |-> <<>>, transform |-> ""]
    /\ cursorListening = FALSE
    /\ mouse = <<0, 0>>

\* A page shown without looking at its sidebar and cursor
WidgetsIdle ==
    /\ SidebarRendered
    /\ sidebarKind = "Aside2"
    /\ hasLayoutWrap = FALSE
    /\ CursorRendered

\* useEffect(() => { ... }, []) of BlogAide and of Aside2: the refs are set and
\* the nav has its buttons, so the first button becomes active and every
\* button gets its click handler.
SidebarMount ==
    /\ page = "widgets"
    /\ sidebarPhase = "init"
    /\ sidebarPhase' = "mounted"
    /\ activeButtons' = activeButtons \cup {0}
    /\ clickListeners' = Buttons
    /\ UNCHANGED <<sidebarKind, hasLayoutWrap, layoutOpen, asideOpen, navTop, toggles,
                   clicked>>
    /\ UNCHANGED <<page, cards, listVars, detailVars, canvasVars, cursorVars>>

\* A click on the menu button at index i: its handler, if it has one.  React
\* runs the pending effect before it lets a click through, so a click finds
\* the component mounted.
ClickMenuButtonNoRemove(i) ==
    /\ page = "widgets"
    /\ sidebarPhase = "mounted"
    /\ clicked' = i
    /\ IF i \in clickListeners
       THEN /\ activeButtons' = activeButtons \cup {i}
            /\ navTop' = TopOf(i)
       ELSE UNCHANGED <<activeButtons, navTop>>
    /\ UNCHANGED <<sidebarKind, sidebarPhase, hasLayoutWrap, layoutOpen, asideOpen,
                   clickListeners, toggles>>
    /\ UNCHANGED <<page, cards, listVars, detailVars, canvasVars, cursorVars>>
ClickMenuButton(i) ==
    /\ page = "widgets"
    /\ sidebarPhase = "mounted"
    /\ clicked' = i
    /\ IF i \in clickListeners
       THEN /\ activeButtons' = (activeButtons \ Buttons) \cup {i}
            /\ navTop' = TopOf(i)
       ELSE UNCHANGED <<activeButtons, navTop>>
    /\ UNCHANGED <<sidebarKind, sidebarPhase, hasLayoutWrap, layoutOpen, asideOpen,
                   clickListeners, toggles>>
    /\ UNCHANGED <<page, cards, listVars, detailVars, canvasVars, cursorVars>>

\* toggleOpen: classList.toggle("open") on the target, if there is one.
\* BlogAide: sidebarRef.current?.closest(".layout_wrap"); Aside2: the aside.
\* The result is <<layoutOpen, asideOpen>>.
ToggledOpenAdding(kind, wrap, lo, ao) ==
    IF kind = "BlogAide"
    THEN << IF wrap THEN TRUE ELSE lo, ao >>
    ELSE << lo, TRUE >>
ToggledOpen(kind, wrap, lo, ao) ==
    IF kind = "BlogAide"
    THEN << IF wrap THEN ~lo ELSE lo, ao >>
    ELSE << lo, ~ao >>

\* A click on the toggle button
ToggleOpen ==
    /\ page = "widgets"
    /\ sidebarPhase \in {"init", "mounted"}
    /\ toggles < MaxToggles
    /\ toggles' = toggles + 1
    /\ layoutOpen' = ToggledOpen(sidebarKind, hasLayoutWrap, layoutOpen, asideOpen)[1]
    /\ asideOpen' = ToggledOpen(sidebarKind, hasLayoutWrap, layoutOpen, asideOpen)[2]
    /\ UNCHANGED <<sidebarKind, sidebarPhase, hasLayoutWrap, activeButtons, navTop,
                   clickListeners, clicked>>
    /\ UNCHANGED <<page, cards, listVars, detailVars, canvasVars, cursorVars>>

\* The sidebar unmounts: the cleanup removes every click handler.
SidebarUnmount ==
    /\ page = "widgets"
    /\ sidebarPhase = "mounted"
    /\ sidebarPhase' = "unmounted"
    /\ clickListeners' = {}
    /\ UNCHANGED <<sidebarKind, hasLayoutWrap, layoutOpen, asideOpen, activeButtons,
                   navTop, toggles, clicked>>
    /\ UNCHANGED <<page, cards, listVars, detailVars, canvasVars, cursorVars>>

\* useEffect(() => { ... }, []) of CustomCursor
CursorMount ==
    /\ page = "widgets"
    /\ cursorPhase = "init"
    /\ cursorPhase' = "mounted"
    /\ bodyCursor' = "none"
    /\ cursorListening' = TRUE
    /\ UNCHANGED <<cursorStyle, mouse>>
    /\ UNCHANGED <<page, cards, listVars, detailVars, canvasVars, sidebarVars>>

\* The pointer moves to (x, y); window "mousemove": handleMouseMove.
\* cursorRef.current is the element from the render until the unmount.
MouseMove(x, y) ==
    /\ page = "widgets"
    /\ <<x, y>> # mouse
    /\ mouse' = <<x, y>>
    /\ IF cursorListening /\ cursorPhase # "unmounted"
       THEN cursorStyle' = [left |-> Px(x), top |-> Px(y),
                            transform |-> "translate(-100%, -100%)"]
       ELSE UNCHANGED cursorStyle
    /\ UNCHANGED <<cursorPhase, bodyCursor, cursorListening>>
    /\ UNCHANGED <<page, cards, listVars, detailVars, canvasVars, sidebarVars>>

\* CustomCursor unmounts: the cleanup the effect returned
CursorUnmountKeepingListener ==
    /\ page = "widgets"
    /\ cursorPhase = "mounted"
    /\ cursorPhase' = "unmounted"
    /\ bodyCursor' = ""
    /\ UNCHANGED <<cursorStyle, mouse, cursorListening>>
    /\ UNCHANGED <<page, cards, listVars, detailVars, canvasVars, sidebarVars>>
CursorUnmount ==
    /\ page = "widgets"
    /\ cursorPhase = "mounted"
    /\ cursorPhase' = "unmounted"
    /\ bodyCursor' = ""
    /\ cursorListening' = FALSE
    /\ UNCHANGED <<cursorStyle, mouse>>
    /\ UNCHANGED <<page, cards, listVars, detailVars, canvasVars, sidebarVars>>

\* The windows the landing page is opened in: [innerWidth, innerHeight] and
\* devicePixelRatio in halves (0: undefined), a page that scrolls or not
\* (a document lower than the window, as high as the window, higher).
WindowSizes == {<<2, 2>>, <<4, 2>>}
Dpr2s == {0, 2, 3, 6}
ScrollHeights == {1, 2, 4}
ScrollYs == {0, 1, 2}
Windows ==
    {[innerWidth |-> sz[1], innerHeight |-> sz[2], dpr2 |-> d, scrollY |-> y, scrollHeight |-> sh] :
        sz \in WindowSizes, d \in Dpr2s, y \in ScrollYs, sh \in ScrollHeights}

\* The landing page is rendered in window w; the effect has not run.
CanvasInitIn(ws, envs) ==
    /\ page = "home"
    /\ cards = <<>>
    /\ ListIdle
    /\ DetailIdle
    /\ CanvasRendered
    /\ WidgetsIdle
    /\ webglEnv \in envs
    /\ intersecting \in BOOLEAN
    /\ window \in ws

\* ------------------------------------------------------ the study pages
StudyInit ==
    /\ \/ page = "list" /\ cards \in ListCardLists /\ ListMounted /\ DetailIdle
       \/ page = "detail" /\ cards \in CardLists /\ DetailMounted /\ ListIdle
    /\ CanvasIdle
    /\ WidgetsIdle

StudyNext ==
    \/ ListEffect
    \/ \E c \in ListCardLists : ChangeCardsProp(c)
    \/ \E p \in 0..MaxPage : SetCurrentPage(p)
    \/ DetailEffect
    \/ \E t \in TitleParams : ChangeTitle(t)
    \/ \E i \in 1..(MaxTitleChanges + 1) : FetchResolveOk(i)
    \/ \E i \in 1..(MaxTitleChanges + 1) : FetchResolveHttpError(i)
    \/ FetchReject

vars == <<page, cards, listVars, detailVars, canvasVars, widgetVars>>

SpecStudy == StudyInit /\ [][StudyNext]_vars

\* ------------------------------------------------------ the landing page
\* The component's life: mount, visibility, frames, inputs, unmount.
CanvasInit ==
    CanvasInitIn({w \in Windows : w.dpr2 = 2 /\ w.scrollHeight = 4 /\ w.scrollY = 0
                                   /\ w.innerWidth = 2},
                 {"ok", "noContext", "throws"})

CanvasNext ==
    \/ CanvasMount
    \/ IntersectionChange
    \/ ObserverCallback
    \/ \E id \in 1..MaxFrames : FrameCallback(id)
    \/ \E cx \in {0, 2} : PointerMove(cx, 0)
    \/ \E y \in {0, 2} : ScrollEvent(y)
    \/ \E sz \in WindowSizes : ResizeEvent(sz[1], sz[2], 2)
    \/ Tick
    \/ CanvasUnmount

SpecCanvas == CanvasInit /\ [][CanvasNext]_vars

\* The smoothing of pointer and scroll: WebGL works, the page scrolls, the
\* pointer and the scroll position go anywhere, frames come at any pace.
SmoothInit ==
    CanvasInitIn({w \in Windows : w.dpr2 = 2 /\ w.scrollHeight = 4 /\ w.innerWidth = 2},
                 {"ok"})

SmoothNext ==
    \/ CanvasMount
    \/ IntersectionChange
    \/ ObserverCallback
    \/ \E id \in 1..MaxFrames : FrameCallback(id)
    \/ \E cx \in {0, 1, 2}, cy \in {0, 2} : PointerMove(cx, cy)
    \/ \E y \in ScrollYs : ScrollEvent(y)
    \/ Tick

SpecSmooth == SmoothInit /\ [][SmoothNext]_vars

\* The smoothing toward targets that stay: the pointer and the scroll position
\* are set before the first frame that takes time (u_time is the sum of the
\* dt of all frames), then frames come at any pace, with pauses while hidden.
FixedTargetInit ==
    CanvasInitIn({w \in Windows : w.dpr2 = 2 /\ w.scrollHeight = 4 /\ w.innerWidth = 2},
                 {"ok"})

FixedTargetNext ==
    \/ CanvasMount
    \/ IntersectionChange
    \/ ObserverCallback
    \/ \E id \in 1..MaxFrames : FrameCallback(id)
    \/ \E cx \in {0, 1, 2}, cy \in {0, 2} : uniforms.u_time = 0 /\ PointerMove(cx, cy)
    \/ \E y \in ScrollYs : uniforms.u_time = 0 /\ ScrollEvent(y)
    \/ Tick

SpecFixedTarget == FixedTargetInit /\ [][FixedTargetNext]_vars

\* The canvas and the window: any pixel ratio, pages that scroll and pages
\* that do not, scrolling and resizing while frames run.
WindowInit ==
    CanvasInitIn({w \in Windows : w.innerWidth = 2}, {"ok"})

WindowNext ==
    \/ CanvasMount
    \/ ObserverCallback
    \/ \E id \in 1..MaxFrames : FrameCallback(id)
    \/ \E y \in ScrollYs : ScrollEvent(y)
    \/ \E sz \in WindowSizes, d \in Dpr2s : ResizeEvent(sz[1], sz[2], d)
    \/ Tick
    \/ CanvasUnmount

SpecWindow == WindowInit /\ [][WindowNext]_vars

\* ------------------------------------------------ the sidebar and the cursor
\* A page with one of the two sidebars, inside a layout_wrap or not, and the
\* custom cursor: clicks on the menu and on the toggle, mouse moves, unmounts.
WidgetsInit ==
    /\ page = "widgets"
    /\ cards = <<>>
    /\ ListIdle
    /\ DetailIdle
    /\ CanvasIdle
    /\ SidebarRendered
    /\ sidebarKind \in {"BlogAide", "Aside2"}
    /\ hasLayoutWrap \in BOOLEAN
    /\ CursorRendered

WidgetsNext ==
    \/ SidebarMount
    \/ \E i \in Buttons : ClickMenuButton(i)
    \/ ToggleOpen
    \/ SidebarUnmount
    \/ CursorMount
    \/ \E x \in 0..MaxCoord, y \in 0..MaxCoord : MouseMove(x, y)
    \/ CursorUnmount

SpecWidgets == WidgetsInit /\ [][WidgetsNext]_vars

\* The fixed-point arithmetic loses nothing: what is left to smooth is a
\* multiple of the largest power of ten a later frame can divide by.
FixedPointExact ==
    LET unit == 10^(MaxTime - uniforms.u_time)
    IN  /\ uniforms.u_time <= now
        /\ (scrollTargetRef - scrollRef) % unit = 0
        /\ (mouseTargetRef[1] - mouseNdcRef[1]) % unit = 0
        /\ (mouseTargetRef[2] - mouseNdcRef[2]) % unit = 0

\* ================================================================== claims

\* C1 (as stated): after mount with WebGL available, a frame is pending or
\* rafRef is set only if the root container is intersecting the viewport.
C1_FramesOnlyWhileIntersecting ==
    (page = "home" /\ canvasPhase = "mounted" /\ webglEnv = "ok")
        => ((rafPending # {} \/ rafRef # 0) => intersecting)

\* C2: currentCard is the first record whose title is the decoded title
\* parameter with every hyphen turned into a space; when there is none,
\* currentCard is undefined and, once the effect has run, notFoundState is
\* true and the page renders notFound().
C2_LookupByDecodedTitle ==
    page = "detail" =>
        LET raw    == CHOOSE r \in RawSegments : EncodeURI(r) = title
            wanted == [i \in 1..Len(raw) |-> IF raw[i] = "-" THEN " " ELSE raw[i]]
            hits   == {i \in 1..Len(cards) : cards[i].title = wanted}
        IN  /\ hits = {} => currentCard = 0
            /\ hits # {} => (currentCard \in hits /\ \A k \in hits : currentCard <= k)
            /\ (hits = {} /\ ~effectDue) => (notFoundState /\ DetailView = "notFound")
\* a title with two hyphens was looked up, found nothing, and the effect ran
C2_Witness ==
    /\ page = "detail"
    /\ ~effectDue
    /\ Cardinality({i \in 1..Len(title) : title[i] = "-"}) = 2
    /\ Len(cards) = 2
    /\ currentCard = 0
    /\ notFoundState
\* the same lookup finds the second of two records
C2_WitnessFound ==
    /\ page = "detail"
    /\ ~effectDue
    /\ Cardinality({i \in 1..Len(title) : title[i] = "-"}) = 2
    /\ currentCard = 2
    /\ ~notFoundState

\* C3 (as stated): the filteredCards handed to CardPagination are exactly the
\* records of cards, in every render.
C3_FilteredAlwaysEqualsCards ==
    page = "list" => filteredCards = listCards
\* C3 (amended): once the effect of the last render has run, filteredCards is
\* the cards prop of that render: same records, same order, same length.
C3_FilteredEqualsCardsAfterEffect ==
    (page = "list" /\ ~listEffectDue) =>
        /\ Len(filteredCards) = Len(listCards)
        /\ \A i \in 1..Len(listCards) : filteredCards[i] = listCards[i]
\* the cards prop changed to a two-record array and the effect ran again
C3_Witness ==
    /\ page = "list"
    /\ ~listEffectDue
    /\ cardsChanges = 1
    /\ Len(listCards) = 2
    /\ listCards[1] # listCards[2]
    /\ filteredCards = listCards

\* C4: when WebGL is unavailable, mounting does nothing: no renderer, no
\* canvas attached, no listener, no observer, no frame requested, no render,
\* and unmounting has no cleanup to run.
C4_NoWebGLDoesNothing ==
    (page = "home" /\ webglEnv # "ok") =>
        /\ ~rendererMade
        /\ ~canvasAttached
        /\ listeners = {}
        /\ ~observing
        /\ ioQueue = <<>>
        /\ rafSeq = 0 /\ rafPending = {} /\ rafRef = 0
        /\ renders = 0
        /\ ~cleanupSet
        /\ disposed = {}
        /\ uniforms = NoUniforms /\ rendererState = NoRenderer
        /\ scrollTargetRef = 0 /\ mouseTargetRef = <<0, 0>>
\* context creation threw, the component mounted and unmounted again
C4_Witness ==
    /\ page = "home"
    /\ webglEnv = "throws"
    /\ canvasPhase = "unmounted"

\* C5: after unmount everything acquired at mount is released, and from then
\* on no frame runs, no handler writes a ref, nothing renders.
C5_UnmountReleasesEverything ==
    [][ /\ (canvasPhase' = "unmounted" /\ webglEnv = "ok") =>
             /\ ~observing'
             /\ listeners' = {}
             /\ rafPending' = {}
             /\ rafRef' = 0
             /\ disposed' = {"geometry", "material", "renderer"}
             /\ ~canvasAttached'
        /\ canvasPhase = "unmounted" =>
             UNCHANGED <<refVars, uniforms, rendererState, renders, rafSeq, rafPending>>
      ]_vars
\* unmounted after frames ran, the pointer moved, the page scrolled, the
\* window was resized and the container was reported hidden and visible again
C5_Witness ==
    /\ page = "home"
    /\ canvasPhase = "unmounted"
    /\ cleanupSet
    /\ renders >= 3
    /\ mouseTargetRef # <<0, 0>>
    /\ scrollTargetRef # 0
    /\ rendererState.size = <<4, 2>>

\* C6 (as stated): while no fetch has delivered the file (each one failed or
\* is still outstanding), markdown is the empty string, notFoundState is
\* false and the card was fetched once.
C6_FailedFetchLeavesViewEmpty ==
    (/\ page = "detail"
     /\ titleChanges = 0
     /\ fetches # <<>>
     /\ \A i \in 1..Len(fetches) : fetches[i].stage # "done")
        => (markdown = "" /\ ~notFoundState /\ Len(fetches) = 1)

\* C7: in every frame the smoothed pointer and scroll values move from where
\* they were toward the target, never past it and never away from it, by the
\* factor 1 - 0.001^dt with dt >= 0: the distance left is at most a tenth of
\* the distance before for every tick (a third of a second) that passed, so
\* with a fixed target the values converge; the uniforms get the new values.
Between(a, x, b) == (a <= x /\ x <= b) \/ (b <= x /\ x <= a)
C7_SmoothingMovesTowardTarget ==
    [][ renders' # renders =>
          LET dt == GetDelta
          IN  /\ dt >= 0
              /\ Between(scrollRef, scrollRef', scrollTargetRef')
              /\ Abs(scrollTargetRef' - scrollRef') * 10^dt <= Abs(scrollTargetRef' - scrollRef)
              /\ \A k \in 1..2 :
                    /\ Between(mouseNdcRef[k], mouseNdcRef'[k], mouseTargetRef[k])
                    /\ Abs(mouseTargetRef[k] - mouseNdcRef'[k]) * 10^dt
                          <= Abs(mouseTargetRef[k] - mouseNdcRef[k])
              /\ uniforms'.u_mouse = mouseNdcRef'
              /\ uniforms'.u_scroll = scrollRef'
      ]_vars
\* both values are on their way: they left the start and are not at the target
C7_Witness ==
    /\ page = "home"
    /\ renders >= 2
    /\ scrollRef # 0 /\ scrollRef # scrollTargetRef
    /\ mouseNdcRef[1] # 0 /\ mouseNdcRef[1] # mouseTargetRef[1]
    /\ uniforms.u_scroll = scrollRef

\* C8: no hook action changes the cards array or a record of it: the bundled
\* array never changes, and the cards prop changes only when the parent
\* passes another array.
C8_CardsReadOnly ==
    [][ /\ cards' = cards
        /\ listCards' # listCards => cardsChanges' = cardsChanges + 1
      ]_vars
\* the list hook ran its effect on two records and the page index was set
C8_Witness ==
    /\ page = "list"
    /\ ~listEffectDue
    /\ Len(cards) = 2
    /\ filteredCards = cards
    /\ listCards = cards
    /\ currentPage = 1

\* C9 (as stated): with unique titles, the link Card renders for a record
\* leads to that record: once the effect has run, currentCard is the record
\* and notFoundState is still false.
UniqueTitles(cs) == \A i, j \in 1..Len(cs) : cs[i].title = cs[j].title => i = j
C9_SlugRoundTrip ==
    (page = "detail" /\ titleChanges = 0 /\ ~effectDue /\ UniqueTitles(cards)) =>
        \A k \in 1..Len(cards) :
            title = EncodeURI(CardSlug(cards[k])) => (currentCard = k /\ ~notFoundState)

\* C10: at most one frame request is pending, and rafRef is non-null exactly
\* when one is pending, in which case it is that request's id.
C10_OneAnimationLoop ==
    page = "home" =>
        /\ Cardinality(rafPending) <= 1
        /\ rafRef # 0 <=> rafPending # {}
        /\ rafPending \subseteq {rafRef}
\* the observer reported the container hidden, visible, and visible again
\* while the restarted loop was running
C10_Witness ==
    /\ page = "home"
    /\ canvasPhase = "mounted"
    /\ observing
    /\ ioQueue = <<>>
    /\ visibleRef
    /\ rafSeq >= 2
    /\ rafPending = {rafRef}

\* C11 (as stated): once the effect for the current title has run and every
\* fetch issued has resolved with its file, in whatever order, markdown is the
\* text of the mdFile of the record matching the current title.
C11_LatestTitleWins ==
    (/\ page = "detail"
     /\ ~effectDue
     /\ fetches # <<>>
     /\ \A i \in 1..Len(fetches) : fetches[i].stage = "done"
     /\ currentCard # 0
     /\ cards[currentCard].mdFile # NoFile)
        => markdown = ServerText(cards[currentCard].mdFile)

\* C12 (as stated): once the effect for the latest title has run, notFoundState
\* is true exactly when no record matches the latest decoded title.
C12_NotFoundIffNoMatch ==
    (page = "detail" /\ ~effectDue) => (notFoundState <=> currentCard = 0)

\* C13: the input handlers write only their own target.  A pointermove
\* changes mouseTargetRef and nothing else, a scroll changes scrollTargetRef
\* and nothing else, a resize changes the renderer's size and pixel ratio and
\* u_resolution and nothing else; none of them touches the smoothed values,
\* visibleRef, rafRef or the frame requests, and u_mouse, u_scroll and u_time
\* change only in a step that renders a frame.
FrameStateUnchanged ==
    /\ uniforms'.u_mouse = uniforms.u_mouse
    /\ uniforms'.u_scroll = uniforms.u_scroll
    /\ uniforms'.u_time = uniforms.u_time
    /\ UNCHANGED <<mouseNdcRef, scrollRef, visibleRef, rafRef, clock>>
    /\ UNCHANGED <<rafPending, rafSeq, renders>>
C13_HandlersWriteOwnTarget ==
    [][ /\ mouseTargetRef' # mouseTargetRef =>
              /\ FrameStateUnchanged
              /\ UNCHANGED <<scrollTargetRef, rendererState, uniforms>>
        /\ window'.scrollY # window.scrollY =>
              /\ FrameStateUnchanged
              /\ UNCHANGED <<mouseTargetRef, rendererState, uniforms>>
        /\ <<window'.innerWidth, window'.innerHeight, window'.dpr2>>
                # <<window.innerWidth, window.innerHeight, window.dpr2>> =>
              /\ FrameStateUnchanged
              /\ UNCHANGED <<mouseTargetRef, scrollTargetRef>>
        /\ (rendererState' # rendererState \/ uniforms'.u_resolution # uniforms.u_resolution) =>
              \/ window' # window
              \/ canvasPhase = "init"
        /\ (\/ uniforms'.u_mouse # uniforms.u_mouse
            \/ uniforms'.u_scroll # uniforms.u_scroll
            \/ uniforms'.u_time # uniforms.u_time) => renders' = renders + 1
      ]_vars
\* the pointer moved, the page scrolled and the window was resized after the
\* frame of the mount, before any other frame: the targets and the size are
\* new, the smoothed uniforms are where the mount left them
C13_Witness ==
    /\ page = "home"
    /\ canvasPhase = "mounted"
    /\ renders = 1
    /\ mouseTargetRef # <<0, 0>>
    /\ scrollTargetRef = Scale
    /\ rendererState.size = <<4, 2>>
    /\ uniforms.u_resolution = <<8, 4>>
    /\ uniforms.u_mouse = <<0, 0>> /\ uniforms.u_scroll = 0 /\ uniforms.u_time = 0
    /\ rafPending = {1}

\* C14: the scroll value is normalized to 0..1.  The mount and every scroll
\* event leave scrollTargetRef at scrollY / max(1, scrollHeight - innerHeight)
\* clamped to 0..1, also on a page that does not scroll, and scrollTargetRef
\* and u_scroll are within 0..1 in every state.
C14_ScrollNormalized ==
    /\ [](page = "home" =>
            /\ 0 <= scrollTargetRef /\ scrollTargetRef <= Scale
            /\ 0 <= uniforms.u_scroll /\ uniforms.u_scroll <= Scale)
    /\ [][ (\/ canvasPhase = "init" /\ canvasPhase' = "mounted"
            \/ window'.scrollY # window.scrollY /\ "scroll" \in listeners) =>
             LET range == window'.scrollHeight - window'.innerHeight
                 denom == IF range >= 1 THEN range ELSE 1
                 y     == window'.scrollY
             IN  scrollTargetRef' =
                    IF y <= 0 THEN 0
                    ELSE IF y >= denom THEN Scale
                    ELSE (y * Scale) \div denom
         ]_vars
\* on a page lower than the window, scrolled past its end, the target is 1
\* and u_scroll is on its way there
C14_Witness ==
    /\ page = "home"
    /\ canvasPhase = "mounted"
    /\ window.scrollHeight < window.innerHeight
    /\ window.scrollY = 2
    /\ scrollTargetRef = Scale
    /\ 0 < uniforms.u_scroll /\ uniforms.u_scroll < Scale

\* C18: the shader resolution follows the window.  While the canvas is
\* mounted, so after the mount and after every resize, the renderer's pixel
\* ratio is min(2, devicePixelRatio), with 1 for a missing or zero ratio, its
\* size is (innerWidth, innerHeight) and u_resolution is that size times the
\* ratio; the pixel ratio is never above 2 (ratios are in halves).
C18_ResolutionFollowsWindow ==
    page = "home" =>
        /\ rendererState.pixelRatio2 <= 4
        /\ canvasPhase = "mounted" =>
             LET ratio2 == IF window.dpr2 = 0 THEN 2
                           ELSE IF window.dpr2 > 4 THEN 4
                           ELSE window.dpr2
             IN  /\ rendererState.pixelRatio2 = ratio2
                 /\ rendererState.size = <<window.innerWidth, window.innerHeight>>
                 /\ uniforms.u_resolution =
                        <<window.innerWidth * ratio2, window.innerHeight * ratio2>>
\* the window was widened on a display with pixel ratio 3: the ratio is capped
C18_Witness ==
    /\ page = "home"
    /\ canvasPhase = "mounted"
    /\ window.dpr2 = 6
    /\ window.innerWidth = 4
    /\ rendererState = [pixelRatio2 |-> 4, size |-> <<4, 2>>]
    /\ uniforms.u_resolution = <<16, 8>>

\* C16: when the record matching the title has no mdFile, the effect issues
\* no fetch and sets nothing: markdown and notFoundState stay as they are,
\* and on a freshly mounted page markdown is the empty string, notFoundState
\* is false and the page renders (banner, empty content), not notFound().
C16_NoMdFileNoFetch ==
    /\ [](( /\ page = "detail"
            /\ titleChanges = 0
            /\ ~effectDue
            /\ currentCard # 0
            /\ cards[currentCard].mdFile = NoFile)
           => (fetches = <<>> /\ markdown = "" /\ ~notFoundState /\ DetailView = "page"))
    /\ [][ ( /\ page = "detail"
             /\ effectDue /\ ~effectDue'
             /\ currentCard # 0
             /\ cards[currentCard].mdFile = NoFile)
           => UNCHANGED <<fetches, markdown, notFoundState>>
         ]_vars
\* the second of two records matches and has no mdFile; the effect has run
C16_Witness ==
    /\ page = "detail"
    /\ titleChanges = 0
    /\ ~effectDue
    /\ currentCard = 2
    /\ cards[2].mdFile = NoFile
    /\ cards[1].mdFile # NoFile
    /\ fetches = <<>>
    /\ markdown = ""
    /\ DetailView = "page"

\* C17: the smoothing is frame-rate independent.  With the targets fixed and
\* the smoothed values starting at 0, after frames whose dt sum to T (u_time)
\* the distance left to the target is 0.001^T (10^-T per tick) of the initial
\* distance, however many frames there were and however T was split, a single
\* long dt after a pause while hidden included.
C17_FrameRateIndependent ==
    (page = "home" /\ rendererMade) =>
        LET T == uniforms.u_time
        IN  /\ (scrollTargetRef - scrollRef) * 10^T = scrollTargetRef - 0
            /\ \A k \in 1..2 :
                  (mouseTargetRef[k] - mouseNdcRef[k]) * 10^T = mouseTargetRef[k] - 0
            /\ uniforms.u_scroll = scrollRef
            /\ uniforms.u_mouse = mouseNdcRef
\* two frames only, the mount's and one that took all the time that passed,
\* with both values on their way
C17_Witness ==
    /\ page = "home"
    /\ renders = 2
    /\ uniforms.u_time = MaxTime
    /\ scrollTargetRef # 0
    /\ scrollRef # 0 /\ scrollRef # scrollTargetRef
    /\ mouseNdcRef[1] # 0 /\ mouseNdcRef[1] # mouseTargetRef[1]

\* C15: while the sidebar is mounted exactly one menu button is active: the
\* first one until a button is clicked, then the button clicked last and no
\* other, with --top set to that button's index times 56, in px.
C15_OneActiveButton ==
    (page = "widgets" /\ sidebarPhase = "mounted") =>
        /\ Cardinality(activeButtons) = 1
        /\ clicked = -1 => (activeButtons = {0} /\ navTop = <<>>)
        /\ clicked # -1 => (activeButtons = {clicked} /\ navTop = <<clicked * 56, "px">>)
\* the fourth button was clicked after another
C15_Witness ==
    /\ page = "widgets"
    /\ sidebarPhase = "mounted"
    /\ sidebarKind = "BlogAide"
    /\ clicked = 3
    /\ activeButtons = {3}
    /\ navTop = <<168, "px">>
    /\ toggles = 1

\* C19: CustomCursor hides the default cursor while it is mounted and gives
\* it back afterwards.  Mounted: body cursor is 'none' and the listener is
\* registered, and each mousemove puts the element's left and top at exactly
\* the event's clientX and clientY, in px.  Unmounted: body cursor is '', the
\* listener is gone, and a mousemove changes nothing.
C19_CursorHiddenWhileMounted ==
    /\ [](page = "widgets" =>
            /\ cursorPhase = "mounted" => (bodyCursor = "none" /\ cursorListening)
            /\ cursorPhase = "unmounted" => (bodyCursor = "" /\ ~cursorListening))
    /\ [][ mouse' # mouse =>
             /\ cursorPhase = "mounted" =>
                  /\ cursorStyle'.left = <<mouse'[1], "px">>
                  /\ cursorStyle'.top = <<mouse'[2], "px">>
             /\ cursorPhase = "unmounted" =>
                  UNCHANGED <<cursorStyle, bodyCursor, cursorListening, cursorPhase>>
         ]_vars
\* the cursor followed the pointer, was unmounted, and the pointer moved on
C19_Witness ==
    /\ page = "widgets"
    /\ cursorPhase = "unmounted"
    /\ bodyCursor = ""
    /\ cursorStyle.left = <<2, "px">> /\ cursorStyle.top = <<1, "px">>
    /\ mouse = <<0, 2>>

\* C20: the sidebar toggle is an involution that touches nothing else.  A
\* click on the toggle flips the class open on its target (BlogAide: the
\* enclosing layout_wrap, Aside2: the aside) and on nothing else, does nothing
\* when there is no target, never changes the active button or --top, and
\* toggling twice gives back the state before.
C20_ToggleInvolution ==
    /\ [](page = "widgets" =>
            LET once  == ToggledOpen(sidebarKind, hasLayoutWrap, layoutOpen, asideOpen)
                twice == ToggledOpen(sidebarKind, hasLayoutWrap, once[1], once[2])
            IN  twice = <<layoutOpen, asideOpen>>)
    /\ [][ /\ toggles' = toggles + 1 =>
                /\ (sidebarKind = "BlogAide" /\ hasLayoutWrap) =>
                        (layoutOpen' = ~layoutOpen /\ asideOpen' = asideOpen)
                /\ (sidebarKind = "BlogAide" /\ ~hasLayoutWrap) =>
                        (layoutOpen' = layoutOpen /\ asideOpen' = asideOpen)
                /\ sidebarKind = "Aside2" =>
                        (asideOpen' = ~asideOpen /\ layoutOpen' = layoutOpen)
                /\ UNCHANGED <<activeButtons, navTop, clickListeners, clicked,
                               sidebarKind, sidebarPhase, hasLayoutWrap, cursorVars>>
           /\ (layoutOpen' # layoutOpen \/ asideOpen' # asideOpen) => toggles' = toggles + 1
         ]_vars
\* BlogAide in a layout_wrap, a menu button clicked, the toggle clicked twice:
\* the layout is closed again and the button is still the active one
C20_Witness ==
    /\ page = "widgets"
    /\ sidebarKind = "BlogAide"
    /\ hasLayoutWrap
    /\ toggles = 2
    /\ ~layoutOpen /\ ~asideOpen
    /\ activeButtons = {2}
    /\ navTop = <<112, "px">>

====
